---- MODULE Spec2Model ----
(***************************************************************************)
(* State-machine model of dashboard/components/frequencyplot.py            *)
(* (class FrequencyPlot): the range sliders and range drag, the debounce   *)
(* timer, the window filter, the hover/lock crosshair and the Select       *)
(* handler.                                                                *)
(*                                                                         *)
(* Conventions                                                             *)
(*   - Python None is the empty tuple <<>> for tuple-valued fields and the *)
(*     number NoTime for time-valued fields.                               *)
(*   - A datetime is the number of seconds it denotes; a matplotlib date   *)
(*     number is represented by the number of seconds it stands for, so    *)
(*     date2num/num2date only change the reading (UTC vs. local wall       *)
(*     clock), which is where tz_offset enters.                            *)
(*   - A modal QMessageBox.exec_() is a frame on the stack `modal`: while  *)
(*     it is open only the nested event loop runs (timer callbacks and the *)
(*     user's OK), the handler that opened it is suspended.                *)
(***************************************************************************)
EXTENDS Integers, Sequences, FiniteSets, TLC

VARIABLES
    pc,                         \* "new": __init__ at line 55; "loading": load blocked in a message box; "ready": event loop
    store,                      \* what Database.get_history_messages lists for (project, model, filename)
    tz_offset,                  \* UTC offset of the machine's local time zone, seconds
    start_time, end_time,
    current_records, filtered_records,
    lower_time_percentage, upper_time_percentage,
    start_slider, end_slider,   \* QSlider.value() of the two sliders
    selected_record,
    is_crosshair_visible, is_crosshair_locked, locked_crosshair_position,
    cross_line,                 \* the artists self.v_line / self.h_line refer to
    lock_lines,                 \* the anonymous lines plot_frequency_data draws at the lock position
    since_move,                 \* ticks elapsed since last_mouse_move (saturating)
    timer_active,               \* debounce_timer.isActive()
    timer_left,                 \* ticks until the pending debounce_timer is due (0: due, or idle)
    is_dragging_range, initial_lower_x, initial_upper_x,
    press_x,                    \* history: event.x() on the slider row of the press that began the gesture in progress
    modal,                      \* stack of open message boxes
    emitted,                    \* payloads emitted on time_range_selected
    prompts,                    \* number of Yes/No confirmation prompts shown
    last_event,                 \* history: the step taken last, with its arguments
    drag_snapshot,              \* history: crosshair state when start_range_drag ran
    burst,                      \* history: range mutations since the last timer cycle (saturating)
    cycles_after,               \* history: timer cycles run since the last range mutation (saturating)
    since_mutation,             \* history: ticks elapsed since the last range mutation (saturating)
    output                      \* what the last downsample_array call returned

vars == <<pc, store, tz_offset, start_time, end_time, current_records, filtered_records,
          lower_time_percentage, upper_time_percentage, start_slider, end_slider,
          selected_record, is_crosshair_visible, is_crosshair_locked,
          locked_crosshair_position, cross_line, lock_lines, since_move, timer_active,
          timer_left, is_dragging_range, initial_lower_x, initial_upper_x, press_x, modal, emitted,
          prompts,
          last_event, drag_snapshot, burst, cycles_after, since_mutation, output>>

env == <<store, tz_offset>>
data == <<start_time, end_time, current_records>>
crosshair == <<is_crosshair_visible, is_crosshair_locked, locked_crosshair_position>>
lines == <<cross_line, lock_lines>>
range == <<lower_time_percentage, upper_time_percentage, start_slider, end_slider>>
drag == <<is_dragging_range, initial_lower_x, initial_upper_x, press_x>>
outputs == <<emitted, prompts>>
timer == <<timer_active, timer_left>>
debounce_hist == <<burst, cycles_after, since_mutation>>

----------------------------------------------------------------------------
\* Bounds of the model.

\* One Tick of the clock, in milliseconds.
TickMs == 50
\* The burst counter saturates here.
BurstCap == 2
\* Longest array handed to downsample_array.
MaxArrayLen == 4

\* Program constants.
mouse_move_debounce_ms == 50
debounce_delay == 200
drag_start_x == 0
LongRecordingMinutes == 6
InitialUpperPercent == 5
SliderMin == 0
SliderMax == 100

NoTime == 0 - 1
None == <<>>

----------------------------------------------------------------------------
\* Inputs.

Rec(f, t, aware, msg) ==
    [frameIndex |-> f, createdAt |-> t, aware |-> aware, message |-> msg,
     tacoChannelCount |-> 1, samplingRate |-> 1]

\* Three records in fetch order 5, 1, 10; naive timestamps; payloads present.
DatasetShort == <<Rec(5, 50, FALSE, "full"), Rec(1, 10, FALSE, "full"), Rec(10, 100, FALSE, "full")>>
\* A recording longer than six minutes; the second record is a thin listing entry,
\* the last one has a null payload.
DatasetLong == <<Rec(0, 0, FALSE, "full"), Rec(20, 200, FALSE, "absent"),
                 Rec(40, 400, FALSE, "full"), Rec(50, 500, FALSE, "null")>>
\* Timestamps written with a trailing Z (timezone-aware after parse_time).
DatasetAware == <<Rec(0, 0, TRUE, "full"), Rec(7, 60, TRUE, "full")>>
\* A short recording whose second record carries a null payload ("message": None).
DatasetNull == <<Rec(3, 30, FALSE, "full"), Rec(4, 40, FALSE, "null")>>
\* A short recording whose second record is a thin listing entry without payload.
DatasetThin == <<Rec(0, 10, FALSE, "full"), Rec(1, 70, FALSE, "absent")>>
\* Frame indices listed out of order and twice each.
DatasetTies == <<Rec(2, 20, FALSE, "full"), Rec(1, 10, FALSE, "full"),
                 Rec(2, 25, FALSE, "full"), Rec(1, 15, FALSE, "full")>>
\* Every record carries the same frame index.
DatasetFlat == <<Rec(7, 70, FALSE, "full"), Rec(7, 75, FALSE, "full")>>
\* 100 records with frame indices 0..99, one second apart.
Dataset100 == [i \in 1..100 |-> Rec(i - 1, i - 1, FALSE, "full")]

\* get_history_messages raises (the store cannot be reached).
StoreDown == <<"unavailable">>

\* The constructions explored: what the store lists, the (start_time, end_time)
\* given to the constructor (none, or one hour) and the machine's UTC offset.
Config(s, t0, t1, off) == [store |-> s, start_time |-> t0, end_time |-> t1, tz_offset |-> off]
Configs ==
    { Config(DatasetShort, NoTime, NoTime, 0),
      Config(DatasetShort, NoTime, NoTime, 19800),
      Config(DatasetShort, 0, 3600, 0),
      Config(DatasetLong, NoTime, NoTime, 0),
      Config(DatasetAware, 0, 3600, 0),
      Config(Dataset100, NoTime, NoTime, 0),
      Config(<<>>, NoTime, NoTime, 0),
      Config(StoreDown, 0, 3600, 0) }
\* The constructions explored with the range controls.
RangeConfigs ==
    { Config(DatasetShort, NoTime, NoTime, 0),
      Config(DatasetLong, NoTime, NoTime, 0),
      Config(<<>>, NoTime, NoTime, 0) }
\* The constructions explored with the sliders alone.
WindowConfigs ==
    { Config(Dataset100, NoTime, NoTime, 0),
      Config(DatasetShort, 0, 3600, 0),
      Config(DatasetLong, NoTime, NoTime, 0),
      Config(DatasetNull, NoTime, NoTime, 0),
      Config(DatasetTies, NoTime, NoTime, 0),
      Config(DatasetFlat, NoTime, NoTime, 0),
      Config(StoreDown, NoTime, NoTime, 0),
      Config(<<>>, NoTime, NoTime, 0) }
\* The constructions explored with drag gestures and the pointer.
DragConfigs ==
    { Config(DatasetShort, NoTime, NoTime, 0),
      Config(DatasetLong, NoTime, NoTime, 0),
      Config(<<>>, NoTime, NoTime, 0) }
\* The constructions explored with the pointer and the Select button.
CrosshairConfigs ==
    { Config(DatasetShort, NoTime, NoTime, 0),
      Config(DatasetShort, NoTime, NoTime, 19800),
      Config(DatasetLong, NoTime, NoTime, 0),
      Config(DatasetAware, 0, 3600, 0),
      Config(DatasetThin, NoTime, NoTime, 0),
      Config(<<>>, NoTime, NoTime, 0),
      Config(StoreDown, 0, 3600, 0) }

\* Arrays and factors handed to downsample_array.
SampleValues == {2, 8}
Arrays == UNION {[1..n -> SampleValues] : n \in 0..MaxArrayLen}
Factors == {0, 1, 2, 3, MaxArrayLen + 1}

\* Pointer positions inside the axes (xdata, ydata).
Points == {<<12, 3>>, <<74, 4>>}
\* Values the user can give a slider.
SliderValues == {10, 90}
\* Values the user can give a slider when only the sliders are in use.
WindowSliderValues == {10, 33, 90}
\* slider_widget.width() and event.x() of a range_mouse_move.
WidgetWidths == {0, 200}
MouseXs == {-100, 101}
\* Where the pointer is on the slider row when Drag Range is pressed: the button is
\* the last widget of the row (line 126).
PressXs == {101}
\* event.x() of the drag moves explored alone: fractions of a percent at width 200.
SpanMouseXs == {-9, 101}
\* The constructions explored with drag moves alone.
SpanConfigs ==
    { Config(DatasetLong, NoTime, NoTime, 0),
      Config(DatasetShort, 0, 3600, 0),
      Config(<<>>, NoTime, NoTime, 0) }

----------------------------------------------------------------------------
\* Pure helpers.

Min2(a, b) == IF a <= b THEN a ELSE b
Max2(a, b) == IF a >= b THEN a ELSE b
Abs(a) == IF a >= 0 THEN a ELSE -a

\* int(n / d) for d > 0: Python's int() truncates toward zero.
PyInt(n, d) == IF n >= 0 THEN n \div d ELSE -((-n) \div d)

\* round(n / d) for n >= 0, d > 0: Python rounds halves to the even neighbour.
PyRound(n, d) ==
    LET q == n \div d
        r2 == 2 * (n % d)
    IN  IF r2 < d THEN q
        ELSE IF r2 > d THEN q + 1
        ELSE IF q % 2 = 0 THEN q ELSE q + 1

\* sorted(messages, key=frameIndex), which is stable: SortSeq moves a record only
\* past records with a strictly greater key.
SortedByFrame(s) ==
    LET ByFrame(a, b) == a.frameIndex < b.frameIndex
    IN  SortSeq(s, ByFrame)

FrameSet(recs) == {recs[i].frameIndex : i \in 1..Len(recs)}
MinFrame(recs) == CHOOSE f \in FrameSet(recs) : \A g \in FrameSet(recs) : f <= g
MaxFrame(recs) == CHOOSE f \in FrameSet(recs) : \A g \in FrameSet(recs) : f >= g

\* A plausible slip: the window computed with round() instead of int().
frame_window_rounded(recs, lo, hi) ==
    LET mn == MinFrame(recs)
        mx == MaxFrame(recs)
        total == mx - mn
    IN  <<Max2(mn, mn + PyRound(total * lo, 100)), Min2(mx, mn + PyRound(total * hi, 100))>>

\* A plausible slip: the offsets taken as percentages of the largest frame index
\* instead of the frame range.
frame_window_of_max(recs, lo, hi) ==
    LET mn == MinFrame(recs)
        mx == MaxFrame(recs)
    IN  <<Max2(mn, PyInt(mx * lo, 100)), Min2(mx, PyInt(mx * hi, 100))>>

\* Lines 200-208: the frame window of the percentage bounds (recs non-empty).
frame_window(recs, lo, hi) ==
    LET min_frame_index == MinFrame(recs)
        max_frame_index == MaxFrame(recs)
        total_frame_range == max_frame_index - min_frame_index
        start_frame_index == min_frame_index + PyInt(total_frame_range * lo, 100)
        end_frame_index == min_frame_index + PyInt(total_frame_range * hi, 100)
    IN  <<Max2(min_frame_index, start_frame_index), Min2(max_frame_index, end_frame_index)>>

\* A plausible slip: the upper end of the window excluded.
filter_records_below_end(recs, lo, hi) ==
    IF recs = <<>> THEN <<>>
    ELSE LET w == frame_window(recs, lo, hi)
             InWindow(r) == w[1] <= r.frameIndex /\ r.frameIndex < w[2]
         IN  SortedByFrame(SelectSeq(recs, InWindow))

\* Lines 194-218 (recs is self.current_records, lo and hi the percentage bounds).
filter_records_by_frame_index_range(recs, lo, hi) ==
    IF recs = <<>> THEN <<>>
    ELSE LET w == frame_window(recs, lo, hi)
             InWindow(r) == w[1] <= r.frameIndex /\ r.frameIndex <= w[2]
         IN  SortedByFrame(SelectSeq(recs, InWindow))

get_current_frame_index_range(recs, lo, hi) ==
    IF recs = <<>> THEN <<0, 0>>
    ELSE LET min_frame_index == MinFrame(recs)
             max_frame_index == MaxFrame(recs)
             total_frame_range == max_frame_index - min_frame_index
             start_frame_index == min_frame_index + PyInt(total_frame_range * lo, 100)
             end_frame_index == min_frame_index + PyInt(total_frame_range * hi, 100)
         IN  <<Max2(min_frame_index, start_frame_index), Min2(max_frame_index, end_frame_index)>>

\* matplotlib.dates.date2num of a parsed createdAt: a naive datetime is read as UTC,
\* an aware one is converted to UTC.
date2num(t) == t
\* mdates.num2date(x).timestamp(): the UTC instant of the date number.
num2timestamp(x) == x
\* datetime.fromtimestamp(ts): the naive local wall-clock reading of the instant.
fromtimestamp(ts, off) == ts + off

\* np.mean of the tacho slice of the record's payload; the samples are not modelled.
tacho_mean(r) == 0

----------------------------------------------------------------------------
\* The crosshair artists.

NoLine == [exists |-> FALSE, pos |-> None, visible |-> FALSE, attached |-> FALSE]
NewLine(p, vis) == [exists |-> TRUE, pos |-> p, visible |-> vis, attached |-> TRUE]

\* What the canvas shows of the crosshair: the positions of its visible lines.
DrawnCrosshair ==
    (IF cross_line.exists /\ cross_line.attached /\ cross_line.visible
        THEN {cross_line.pos} ELSE {})
    \cup (IF lock_lines # None THEN {lock_lines} ELSE {})

\* plot_frequency_data, lines 241-289.
\* Line 265 raises when a payload is null (None[start:end]).
plot_raises(fr) ==
    /\ fr # <<>>
    /\ fr[1].tacoChannelCount >= 1
    /\ \E i \in 1..Len(fr) : fr[i].message = "null"

plot_draws_series(fr) ==
    fr # <<>> /\ fr[1].tacoChannelCount >= 1 /\ ~plot_raises(fr)

\* self.v_line / self.h_line after the plot: ax.clear() detaches the old artists;
\* lines 271-273 create new, invisible ones while hovering.
plot_cross_line(fr, vis, locked, cl) ==
    IF plot_draws_series(fr) /\ vis /\ ~locked
    THEN NewLine(<<date2num(fr[1].createdAt), tacho_mean(fr[1])>>, FALSE)
    ELSE [cl EXCEPT !.attached = FALSE]

\* Lines 274-277: the lock position is drawn with anonymous lines.
plot_lock_lines(fr, locked, pos) ==
    IF plot_draws_series(fr) /\ locked /\ pos # None THEN pos ELSE None

----------------------------------------------------------------------------
\* Message boxes.

\* The value of the history variable last_event.
Event(op, args) == [op |-> op, args |-> args]

Box(icon, text, owner) == [icon |-> icon, text |-> text, owner |-> owner]
\* The widget's handlers run from the main event loop only: a message box is
\* application-modal and blocks input to the widget.
Idle == pc = "ready" /\ modal = <<>>
\* An event loop is running (app.exec_ or a message box's exec_).
EventLoopRuns == pc = "ready" \/ modal # <<>>

\* One more range mutation in the current burst.
Mutation ==
    /\ burst' = IF cycles_after > 0 THEN 1 ELSE Min2(burst + 1, BurstCap)
    /\ cycles_after' = 0
    /\ since_mutation' = 0

\* Ticks after which a pointer move is processed again (line 293).
DebounceTicks == (mouse_move_debounce_ms + TickMs - 1) \div TickMs
\* Ticks after which a debounce_timer started now is due (line 45).
DelayTicks == (debounce_delay + TickMs - 1) \div TickMs

\* A plausible slip: stop() where start() is meant, so no timeout is pending after
\* the call.
timer_stop ==
    /\ timer_active' = FALSE
    /\ timer_left' = 0

\* debounce_timer.start(self.debounce_delay): a pending timer is restarted with the
\* full interval (lines 419, 355, 382).
timer_start ==
    /\ timer_active' = TRUE
    /\ timer_left' = DelayTicks

----------------------------------------------------------------------------
\* Construction.

\* The state at line 55: initUI has run, its update_labels (line 146) has copied the
\* slider values into the bounds and armed the debounce timer.
InitFrom(configs) ==
    /\ pc = "new"
    /\ \E c \in configs :
          /\ store = c.store
          /\ tz_offset = c.tz_offset
          /\ start_time = c.start_time
          /\ end_time = c.end_time
    /\ current_records = <<>>
    /\ filtered_records = <<>>
    /\ lower_time_percentage = SliderMin
    /\ upper_time_percentage = SliderMax
    /\ start_slider = SliderMin
    /\ end_slider = SliderMax
    /\ selected_record = None
    /\ is_crosshair_visible = FALSE
    /\ is_crosshair_locked = FALSE
    /\ locked_crosshair_position = None
    /\ cross_line = NoLine
    /\ lock_lines = None
    /\ since_move = 0
    /\ timer_active = TRUE
    /\ timer_left = DelayTicks
    /\ is_dragging_range = FALSE
    /\ initial_lower_x = 0
    /\ initial_upper_x = 0
    /\ press_x = 0
    /\ modal = <<>>
    /\ emitted = <<>>
    /\ prompts = 0
    /\ last_event = Event("initUI", <<>>)
    /\ drag_snapshot = None
    /\ burst = 0
    /\ cycles_after = 0
    /\ since_mutation = 0
    /\ output = None

Init == InitFrom(Configs)

CreatedTimes(recs) == {recs[i].createdAt : i \in 1..Len(recs)}
MinTime(recs) == CHOOSE t \in CreatedTimes(recs) : \A u \in CreatedTimes(recs) : t <= u
MaxTime(recs) == CHOOSE t \in CreatedTimes(recs) : \A u \in CreatedTimes(recs) : t >= u

\* initialize_data with fetch_all_records (lines 148-192), up to the point where it
\* returns or blocks in a message box.
initialize_data ==
    /\ pc = "new"
    /\ last_event' = Event("initialize_data", <<>>)
    /\ IF store = StoreDown
       THEN \* get_history_messages raises: line 192
            /\ modal' = Append(modal, Box("error", "Error fetching records", "load"))
            /\ pc' = "loading"
            /\ UNCHANGED <<data, filtered_records, range, timer, lines>>
       ELSE IF store = <<>>
       THEN \* line 166
            /\ modal' = Append(modal, Box("info", "No records found", "load"))
            /\ pc' = "loading"
            /\ UNCHANGED <<data, filtered_records, range, timer, lines>>
       ELSE LET recs == SortedByFrame(store)
                derive == start_time = NoTime \/ end_time = NoTime
                st == IF derive THEN MinTime(recs) ELSE start_time
                et == IF derive THEN MaxTime(recs) ELSE end_time
                long == et - st > LongRecordingMinutes * 60
                hi == IF long THEN InitialUpperPercent ELSE upper_time_percentage
                lo == IF long THEN 0 ELSE lower_time_percentage
                fr == IF long THEN filter_records_by_frame_index_range(recs, lo, hi) ELSE recs
            IN  /\ current_records' = recs
                /\ start_time' = st
                /\ end_time' = et
                /\ lower_time_percentage' = lo
                /\ upper_time_percentage' = hi
                /\ start_slider' = (IF long THEN 0 ELSE start_slider)
                /\ end_slider' = (IF long THEN InitialUpperPercent ELSE end_slider)
                /\ IF long THEN timer_start ELSE UNCHANGED timer
                /\ filtered_records' = fr
                /\ cross_line' = plot_cross_line(fr, is_crosshair_visible, is_crosshair_locked, cross_line)
                /\ lock_lines' = plot_lock_lines(fr, is_crosshair_locked, locked_crosshair_position)
                /\ IF plot_raises(fr)
                   THEN /\ modal' = Append(modal, Box("error", "Error plotting data", "load"))
                        /\ pc' = "loading"
                   ELSE /\ modal' = modal
                        /\ pc' = "ready"
    /\ UNCHANGED <<env, output, selected_record, crosshair, since_move, drag, outputs,
                   drag_snapshot, debounce_hist>>

----------------------------------------------------------------------------
\* The event loop.

\* Time passes.
Tick ==
    /\ EventLoopRuns
    /\ since_move < DebounceTicks \/ since_mutation < DelayTicks \/ timer_left > 0
    /\ since_move' = Min2(since_move + 1, DebounceTicks)
    /\ since_mutation' = Min2(since_mutation + 1, DelayTicks)
    /\ timer_left' = Max2(timer_left - 1, 0)
    /\ last_event' = Event("Tick", <<>>)
    /\ UNCHANGED <<pc, env, output, data, filtered_records, range, selected_record, crosshair,
                   lines, timer_active, drag, modal, outputs, drag_snapshot,
                   burst, cycles_after>>

\* show_message_box returns: the user presses OK on the topmost box (lines 566-577).
message_box_ok ==
    /\ modal # <<>>
    /\ modal' = SubSeq(modal, 1, Len(modal) - 1)
    /\ pc' = IF modal[Len(modal)].owner = "load" THEN "ready" ELSE pc
    /\ last_event' = Event("message_box_ok", <<>>)
    /\ UNCHANGED <<env, output, data, filtered_records, range, selected_record, crosshair, lines,
                   since_move, timer, drag, outputs, drag_snapshot, debounce_hist>>

\* The debounce timer is due and the event loop delivers its timeout (single shot,
\* lines 43-44): filter_and_plot_data (lines 423-430).
filter_and_plot_data ==
    /\ timer_active
    /\ timer_left = 0
    /\ EventLoopRuns
    /\ timer_active' = FALSE
    /\ timer_left' = 0
    /\ last_event' = Event("filter_and_plot_data", <<>>)
    /\ cycles_after' = Min2(cycles_after + 1, 2)
    /\ IF current_records = <<>>
       THEN UNCHANGED <<filtered_records, lines, modal>>
       ELSE LET fr == filter_records_by_frame_index_range(
                          current_records, lower_time_percentage, upper_time_percentage)
            IN  /\ filtered_records' = fr
                /\ cross_line' = plot_cross_line(fr, is_crosshair_visible, is_crosshair_locked, cross_line)
                /\ lock_lines' = plot_lock_lines(fr, is_crosshair_locked, locked_crosshair_position)
                /\ modal' = IF plot_raises(fr)
                            THEN Append(modal, Box("error", "Error plotting data", "timer"))
                            ELSE modal
    /\ UNCHANGED <<pc, env, output, data, range, selected_record, crosshair, since_move, drag,
                   outputs, drag_snapshot, burst, since_mutation>>

----------------------------------------------------------------------------
\* The crosshair.

\* A plausible slip: the guard of line 293 without the lock test.
mouse_move_dropped_ignoring_lock(inaxes) ==
    \/ ~inaxes
    \/ since_move * TickMs < mouse_move_debounce_ms

\* A plausible slip: the guard of line 293 without the elapsed-time test.
mouse_move_dropped_no_debounce(inaxes) ==
    \/ ~inaxes
    \/ is_crosshair_locked

\* The guard of line 293: the move is dropped.
mouse_move_dropped(inaxes) ==
    \/ ~inaxes
    \/ is_crosshair_locked
    \/ since_move * TickMs < mouse_move_debounce_ms

\* on_mouse_move (lines 291-310).
on_mouse_move(inaxes, p) ==
    /\ Idle
    /\ last_event' = Event("on_mouse_move", <<inaxes, p>>)
    /\ IF mouse_move_dropped(inaxes)
       THEN UNCHANGED <<since_move, is_crosshair_visible, cross_line>>
       ELSE /\ since_move' = 0
            /\ is_crosshair_visible' = TRUE
            /\ cross_line' = IF ~is_crosshair_visible THEN NewLine(p, TRUE)
                             ELSE IF cross_line.exists THEN [cross_line EXCEPT !.pos = p]
                             ELSE cross_line
    /\ UNCHANGED <<pc, env, output, data, filtered_records, range, selected_record,
                   is_crosshair_locked, locked_crosshair_position, lock_lines,
                   timer, drag, modal, outputs, drag_snapshot, debounce_hist>>

\* A plausible slip: the click locks at the position the crosshair displays instead
\* of the click's own coordinates.
lock_position_displayed(p) == IF cross_line.exists THEN cross_line.pos ELSE p

\* Line 323: the position a locking click stores.
lock_position(p) == p

\* on_mouse_click (lines 312-332). Without artists (no move processed yet) lines 324
\* and 328 raise AttributeError after the flags are already assigned.
on_mouse_click(inaxes, button, p) ==
    /\ Idle
    /\ last_event' = Event("on_mouse_click", <<inaxes, button, p>>)
    /\ IF inaxes /\ button = 1
       THEN /\ is_crosshair_locked' = ~is_crosshair_locked
            /\ IF ~is_crosshair_locked
               THEN /\ locked_crosshair_position' = lock_position(p)
                    /\ cross_line' = IF cross_line.exists THEN [cross_line EXCEPT !.pos = p]
                                     ELSE cross_line
               ELSE /\ locked_crosshair_position' = None
                    /\ cross_line' = IF cross_line.exists THEN [cross_line EXCEPT !.visible = FALSE]
                                     ELSE cross_line
       ELSE UNCHANGED <<is_crosshair_locked, locked_crosshair_position, cross_line>>
    /\ UNCHANGED <<pc, env, output, data, filtered_records, range, selected_record,
                   is_crosshair_visible, lock_lines, since_move, timer, drag,
                   modal, outputs, drag_snapshot, debounce_hist>>

\* on_mouse_leave (lines 334-342).
on_mouse_leave ==
    /\ Idle
    /\ last_event' = Event("on_mouse_leave", <<>>)
    /\ IF is_crosshair_visible /\ ~is_crosshair_locked
       THEN /\ is_crosshair_visible' = FALSE
            /\ cross_line' = IF cross_line.exists THEN [cross_line EXCEPT !.visible = FALSE]
                             ELSE cross_line
       ELSE UNCHANGED <<is_crosshair_visible, cross_line>>
    /\ UNCHANGED <<pc, env, output, data, filtered_records, range, selected_record,
                   is_crosshair_locked, locked_crosshair_position, lock_lines,
                   since_move, timer, drag, modal, outputs, drag_snapshot,
                   debounce_hist>>

----------------------------------------------------------------------------
\* The range.

\* A plausible slip: update_labels starts the timer only when none is pending, so
\* that a pending timer keeps its original deadline.
update_labels_no_restart(sv, ev) ==
    /\ lower_time_percentage' = sv
    /\ upper_time_percentage' = ev
    /\ IF timer_active THEN UNCHANGED timer ELSE timer_start

\* A plausible slip: the labels and bounds are updated without arming the timer.
update_labels_no_timer(sv, ev) ==
    /\ lower_time_percentage' = sv
    /\ upper_time_percentage' = ev
    /\ UNCHANGED timer

\* update_labels (lines 406-421) with the slider values sv, ev.
update_labels(sv, ev) ==
    /\ lower_time_percentage' = sv
    /\ upper_time_percentage' = ev
    /\ timer_start

\* The user moves the start slider: valueChanged -> update_labels (line 94).
start_slider_valueChanged(v) ==
    /\ Idle
    /\ v # start_slider
    /\ start_slider' = v
    /\ end_slider' = end_slider
    /\ update_labels(v, end_slider)
    /\ Mutation
    /\ last_event' = Event("start_slider_valueChanged", <<>>)
    /\ UNCHANGED <<pc, env, output, data, filtered_records, selected_record, crosshair, lines,
                   since_move, drag, modal, outputs, drag_snapshot>>

\* The user moves the end slider: valueChanged -> update_labels (line 105).
end_slider_valueChanged(v) ==
    /\ Idle
    /\ v # end_slider
    /\ end_slider' = v
    /\ start_slider' = start_slider
    /\ update_labels(start_slider, v)
    /\ Mutation
    /\ last_event' = Event("end_slider_valueChanged", <<>>)
    /\ UNCHANGED <<pc, env, output, data, filtered_records, selected_record, crosshair, lines,
                   since_move, drag, modal, outputs, drag_snapshot>>

\* start_range_drag (lines 344-350): the Drag Range button is pressed with the
\* pointer at press on the slider row. The pressed signal carries no position and
\* the handler stores none: drag_start_x keeps the value of line 51.
start_range_drag(press) ==
    /\ Idle
    /\ ~is_dragging_range
    /\ is_dragging_range' = TRUE
    /\ initial_lower_x' = lower_time_percentage
    /\ initial_upper_x' = upper_time_percentage
    /\ press_x' = press
    /\ drag_snapshot' = crosshair
    /\ last_event' = Event("start_range_drag", <<>>)
    /\ UNCHANGED <<pc, env, output, data, filtered_records, range, selected_record, crosshair,
                   lines, since_move, timer, modal, outputs, debounce_hist>>

\* stop_range_drag (lines 352-357): the button is released.
stop_range_drag ==
    /\ Idle
    /\ is_dragging_range
    /\ is_dragging_range' = FALSE
    /\ timer_start
    /\ Mutation
    /\ drag_snapshot' = None
    /\ press_x' = 0
    /\ last_event' = Event("stop_range_drag", <<>>)
    /\ UNCHANGED <<pc, env, output, data, filtered_records, range, selected_record, crosshair,
                   lines, since_move, initial_lower_x, initial_upper_x, modal, outputs>>

\* get_minimum_range_percentage (lines 386-404) as the fraction <<num, den>>.
get_minimum_range_percentage ==
    IF start_time = NoTime \/ end_time = NoTime THEN <<1, 1>>
    ELSE LET total_duration_seconds == end_time - start_time
             sampling_rate == IF current_records # <<>> THEN current_records[1].samplingRate ELSE 0
             \* max(1.0 / sampling_rate, 0.1), or 1.0 without a positive rate
             min_duration == IF sampling_rate <= 0 THEN <<1, 1>>
                             ELSE IF sampling_rate >= 10 THEN <<1, 10>>
                             ELSE <<1, sampling_rate>>
             pct == <<min_duration[1] * 100, min_duration[2] * total_duration_seconds>>
         IN  IF total_duration_seconds <= 0 THEN <<1, 1>>
             ELSE IF pct[1] > 100 * pct[2] THEN <<100, 1>>
             ELSE pct

\* Lines 369-371: the dragged bound, as a numerator over widget_width.
dragged_bound(initial, mouse_x, widget_width) ==
    Max2(0, Min2(100 * widget_width, initial * widget_width + (mouse_x - drag_start_x) * 100))

\* Lines 361-375: the move is ignored.
range_move_ignored(mouse_x, widget_width) ==
    \/ ~is_dragging_range
    \/ widget_width <= 0
    \/ LET new_lower_x == dragged_bound(initial_lower_x, mouse_x, widget_width)
           new_upper_x == dragged_bound(initial_upper_x, mouse_x, widget_width)
           min_range == get_minimum_range_percentage
       IN  (new_upper_x - new_lower_x) * min_range[2] < min_range[1] * widget_width

\* range_mouse_move (lines 359-384): slider_widget.mouseMoveEvent. The setValue calls
\* and the closing update_labels leave the bounds at the sliders' integer values.
range_mouse_move(mouse_x, widget_width) ==
    /\ Idle
    /\ last_event' = Event("range_mouse_move", <<mouse_x, widget_width>>)
    /\ IF range_move_ignored(mouse_x, widget_width)
       THEN UNCHANGED <<range, timer, debounce_hist>>
       ELSE LET new_lower_x == dragged_bound(initial_lower_x, mouse_x, widget_width)
                new_upper_x == dragged_bound(initial_upper_x, mouse_x, widget_width)
            IN  /\ start_slider' = PyInt(new_lower_x, widget_width)
                /\ end_slider' = PyInt(new_upper_x, widget_width)
                /\ update_labels(PyInt(new_lower_x, widget_width), PyInt(new_upper_x, widget_width))
                /\ Mutation
    /\ UNCHANGED <<pc, env, output, data, filtered_records, selected_record, crosshair, lines,
                   since_move, drag, modal, outputs, drag_snapshot>>

----------------------------------------------------------------------------
\* Downsampling.

\* int(np.ceil(n / d)) for n >= 0, d > 0 (line 435).
PyCeil(n, d) == IF n % d = 0 THEN n \div d ELSE n \div d + 1

RECURSIVE np_sum(_)
np_sum(s) == IF s = <<>> THEN 0 ELSE s[1] + np_sum(Tail(s))
\* np.mean of a non-empty slice, as the exact fraction <<sum, count>> (line 440).
np_mean(s) == <<np_sum(s), Len(s)>>

\* A plausible slip: the output length rounded down, which drops a partial last
\* bucket.
downsample_array_floor(array, factor) ==
    IF factor <= 1 THEN array
    ELSE [i \in 1..(Len(array) \div factor) |->
             np_mean(SubSeq(array, (i - 1) * factor + 1, Min2(i * factor, Len(array))))]

\* downsample_array (lines 432-441) for an integer factor; the loop index i of the
\* source is i - 1 here.
downsample_array(array, factor) ==
    IF factor <= 1 THEN array
    ELSE LET output_length == PyCeil(Len(array), factor)
         IN  [i \in 1..output_length |->
                 LET start_index == (i - 1) * factor
                     end_index == Min2(start_index + factor, Len(array))
                 IN  np_mean(SubSeq(array, start_index + 1, end_index))]

\* A caller applies downsample_array to an array and a factor.
downsample_call(array, factor) ==
    /\ output' = <<downsample_array(array, factor)>>
    /\ last_event' = Event("downsample_array", <<array, factor>>)
    /\ UNCHANGED <<pc, env, data, filtered_records, range, selected_record, crosshair,
                   lines, since_move, timer, drag, modal, outputs, drag_snapshot,
                   debounce_hist>>

----------------------------------------------------------------------------
\* The selection.

\* The index min() returns at lines 462-466: the first record at minimum distance.
closest_index(recs, clicked) ==
    CHOOSE i \in 1..Len(recs) :
        \A j \in 1..Len(recs) :
            \/ Abs(recs[i].createdAt - clicked) < Abs(recs[j].createdAt - clicked)
            \/ /\ Abs(recs[i].createdAt - clicked) = Abs(recs[j].createdAt - clicked)
               /\ i <= j

\* find_closest_record (lines 459-489); the result is <<>> (None or an empty list)
\* or <<record>>. Subtracting the naive clicked time from an aware createdAt raises
\* TypeError, which line 487 turns into None. fetch_ok: the store still holds the
\* frame when it is queried at line 478.
find_closest_record(recs, clicked_time, fetch_ok) ==
    IF recs = <<>> THEN None
    ELSE IF \E i \in 1..Len(recs) : recs[i].aware THEN None
    ELSE LET closest_record == recs[closest_index(recs, fromtimestamp(clicked_time, tz_offset))]
             InFrame(r) == r.frameIndex = closest_record.frameIndex
             fetched == IF fetch_ok THEN SelectSeq(store, InFrame) ELSE <<>>
         IN  IF closest_record.message = "full" THEN <<closest_record>>
             ELSE IF fetched # <<>> THEN <<fetched[1]>>
             ELSE None

\* Lines 514-517: timezone is datetime.timezone (line 15), and
\* datetime.timezone('Asia/Kolkata') raises TypeError for every record.
local_timestamp_raises == TRUE

\* The dict of lines 542-549.
selected_data(r) ==
    [filename |-> "self.filename", model |-> "self.model_name",
     frameIndex |-> r.frameIndex, timestamp |-> r.createdAt, channelData |-> r.message,
     project_name |-> "self.project_name"]

\* A plausible slip: the guard of line 493 tests the visible flag instead of the lock.
select_refused_if_hidden == ~is_crosshair_visible

\* Line 493: Select is refused.
select_refused == ~is_crosshair_locked \/ locked_crosshair_position = None

\* select_button_click (lines 491-564). answer is what the operator would reply to
\* the Yes/No prompt of line 539.
select_button_click(fetch_ok, answer) ==
    /\ Idle
    /\ last_event' = Event("select_button_click", <<fetch_ok>>)
    /\ IF select_refused
       THEN /\ modal' = Append(modal, Box("info", "Please lock the crosshair first", "select"))
            /\ UNCHANGED <<selected_record, outputs>>
       ELSE IF locked_crosshair_position = None
       THEN \* line 501 cannot unpack None: TypeError, line 564
            /\ modal' = Append(modal, Box("error", "Error during selection", "select"))
            /\ UNCHANGED <<selected_record, outputs>>
       ELSE LET x == locked_crosshair_position[1]
                found == find_closest_record(current_records, num2timestamp(x), fetch_ok)
            IN  /\ selected_record' = found
                /\ IF found = None
                   THEN /\ modal' = Append(modal, Box("warning", "No record found", "select"))
                        /\ UNCHANGED outputs
                   ELSE IF local_timestamp_raises
                   THEN \* line 564
                        /\ modal' = Append(modal, Box("error", "Error during selection", "select"))
                        /\ UNCHANGED outputs
                   ELSE /\ prompts' = prompts + 1
                        /\ IF answer
                           THEN /\ emitted' = Append(emitted, selected_data(found[1]))
                                /\ modal' = Append(modal, Box("info", "Selection Complete", "select"))
                           ELSE UNCHANGED <<emitted, modal>>
    /\ UNCHANGED <<pc, env, output, data, filtered_records, range, crosshair, lines, since_move,
                   timer, drag, drag_snapshot, debounce_hist>>

----------------------------------------------------------------------------

PointerEvents ==
    \/ \E p \in Points : on_mouse_move(TRUE, p)
    \/ on_mouse_move(FALSE, None)
    \/ \E p \in Points, button \in {1, 3} : on_mouse_click(TRUE, button, p)
    \/ on_mouse_click(FALSE, 1, None)
    \/ on_mouse_leave

SliderOnly ==
    \/ \E v \in WindowSliderValues : start_slider_valueChanged(v)
    \/ \E v \in WindowSliderValues : end_slider_valueChanged(v)

SliderEvents ==
    \/ \E v \in SliderValues : start_slider_valueChanged(v)
    \/ \E v \in SliderValues : end_slider_valueChanged(v)
    \/ \E mouse_x \in MouseXs, widget_width \in WidgetWidths : range_mouse_move(mouse_x, widget_width)

DragButton ==
    \/ \E press \in PressXs : start_range_drag(press)
    \/ stop_range_drag

Loop ==
    \/ initialize_data
    \/ Tick
    \/ message_box_ok
    \/ filter_and_plot_data

Select == \E fetch_ok \in BOOLEAN, answer \in BOOLEAN : select_button_click(fetch_ok, answer)

\* The whole widget.
Next == Loop \/ PointerEvents \/ SliderEvents \/ DragButton \/ Select
Spec == Init /\ [][Next]_vars

\* The widget with the range controls in use and the pointer outside the plot.
NextRange == Loop \/ SliderEvents \/ DragButton
SpecRange == InitFrom(RangeConfigs) /\ [][NextRange]_vars

\* The widget with the pointer and Select in use and the range controls left alone.
NextCrosshair == Loop \/ PointerEvents \/ Select
SpecCrosshair == InitFrom(CrosshairConfigs) /\ [][NextCrosshair]_vars

\* Drag gestures (without drag moves) interleaved with pointer events.
NextDrag == Loop \/ PointerEvents \/ DragButton
SpecDrag == InitFrom(DragConfigs) /\ [][NextDrag]_vars

\* The widget with only the sliders in use.
NextWindow == Loop \/ SliderOnly
SpecWindow == InitFrom(WindowConfigs) /\ [][NextWindow]_vars

\* The widget with the range dragged and the sliders not touched by hand.
DragMoves ==
    \E mouse_x \in SpanMouseXs, widget_width \in WidgetWidths : range_mouse_move(mouse_x, widget_width)
NextSpan == Loop \/ DragButton \/ DragMoves
SpecSpan == InitFrom(SpanConfigs) /\ [][NextSpan]_vars

\* The dragged range under a fair event loop: the constructor goes on to load
\* (line 55), time passes while a timer is pending and a due single-shot timer is
\* delivered by whichever event loop is running (lines 42-44).
LiveSpan ==
    /\ SpecSpan
    /\ WF_vars(initialize_data)
    /\ WF_vars(Tick)
    /\ WF_vars(filter_and_plot_data)

\* downsample_array applied to arrays of up to MaxArrayLen samples.
NextDownsample == \E array \in Arrays, factor \in Factors : downsample_call(array, factor)
SpecDownsample == InitFrom({Config(<<>>, NoTime, NoTime, 0)}) /\ [][NextDownsample]_vars

----------------------------------------------------------------------------
\* Properties.

Op(e) == e.op
Hovering == is_crosshair_visible /\ ~is_crosshair_locked
\* The window as the specification states it, with round().
RoundedWindow(recs, lo, hi) ==
    LET mn == recs[1].frameIndex
        mx == recs[Len(recs)].frameIndex
    IN  <<mn + PyRound((mx - mn) * lo, 100), mn + PyRound((mx - mn) * hi, 100)>>
\* The window with the quotient truncated.
TruncatedWindow(recs, lo, hi) ==
    LET mn == recs[1].frameIndex
        mx == recs[Len(recs)].frameIndex
    IN  <<mn + ((mx - mn) * lo) \div 100, mn + ((mx - mn) * hi) \div 100>>
RecordsIn(recs, w) ==
    LET InW(r) == w[1] <= r.frameIndex /\ r.frameIndex <= w[2]
    IN  SelectSeq(recs, InW)
CycleRan == Op(last_event) = "filter_and_plot_data" /\ current_records # <<>>

\* C1: after any sequence of slider changes and drag moves the lower bound is at
\* most the upper bound, and the frame window derived from them has start <= end.
C1_BoundsOrdered ==
    /\ lower_time_percentage <= upper_time_percentage
    /\ current_records # <<>> =>
          LET w == get_current_frame_index_range(
                       current_records, lower_time_percentage, upper_time_percentage)
          IN  w[1] <= w[2]

\* C2 as stated: the window of the filter cycle and of get_current_frame_index_range
\* is minFrame + round((maxFrame - minFrame) * percent / 100) at both ends; for frame
\* indices 0..99 and bounds 10, 90 it is [10, 89] and 80 records pass.
C2_WindowRounded ==
    current_records # <<>> =>
        LET w == RoundedWindow(current_records, lower_time_percentage, upper_time_percentage)
        IN  /\ get_current_frame_index_range(
                   current_records, lower_time_percentage, upper_time_percentage) = w
            /\ CycleRan => filtered_records = RecordsIn(current_records, w)
            /\ (CycleRan /\ store = Dataset100
                  /\ lower_time_percentage = 10 /\ upper_time_percentage = 90)
               => Len(filtered_records) = 80 /\ filtered_records[1].frameIndex = 10

\* C2 amended: both ends of the window are minFrame + floor((maxFrame - minFrame) *
\* percent / 100) (int() truncates); the filter cycle keeps exactly the records in
\* it; for frame indices 0..99 and bounds 10, 90 the window is [9, 89] and 81
\* records pass.
C2_WindowTruncated ==
    current_records # <<>> =>
        LET w == TruncatedWindow(current_records, lower_time_percentage, upper_time_percentage)
        IN  /\ get_current_frame_index_range(
                   current_records, lower_time_percentage, upper_time_percentage) = w
            /\ CycleRan => filtered_records = RecordsIn(current_records, w)
            /\ (CycleRan /\ store = Dataset100
                  /\ lower_time_percentage = 10 /\ upper_time_percentage = 90)
               => /\ Len(filtered_records) = 81
                  /\ filtered_records[1].frameIndex = 9
                  /\ filtered_records[81].frameIndex = 89

C2_Witness ==
    /\ CycleRan
    /\ store = Dataset100
    /\ lower_time_percentage = 10
    /\ upper_time_percentage = 90
    /\ Len(filtered_records) = 81

\* C3: a Select press with the crosshair locked on a point that resolves to a record
\* asks the confirmation prompt once, and the event emitted on yes carries that
\* record's frame index.
C3_SelectAsksAndEmits ==
    (Op(last_event) = "select_button_click" /\ is_crosshair_locked /\ selected_record # None)
    => /\ prompts >= 1
       /\ Len(emitted) <= prompts
       /\ \A i \in 1..Len(emitted) : emitted[i].frameIndex = selected_record[1].frameIndex

\* C5: an event is emitted only by a Select press made while the crosshair is locked
\* with a locked position, and a Select press in Hidden or Hovering emits nothing,
\* resolves no record, asks no confirmation and only shows the hint.
C5_SelectOnlyFromLocked ==
    [][/\ emitted' # emitted =>
            /\ Op(last_event') = "select_button_click"
            /\ is_crosshair_locked
            /\ locked_crosshair_position # None
       /\ (Op(last_event') = "select_button_click" /\ ~is_crosshair_locked) =>
            /\ emitted' = emitted
            /\ prompts' = prompts
            /\ selected_record' = selected_record
            /\ modal' = Append(modal, Box("info", "Please lock the crosshair first", "select"))
      ]_vars

C5_Witness ==
    /\ Op(last_event) = "select_button_click"
    /\ Hovering
    /\ modal # <<>>
    /\ modal[Len(modal)].icon = "info"
    /\ emitted = <<>>
    /\ prompts = 0

\* C6: while the crosshair is locked, a pointer move or a pointer leave changes
\* neither the flags, nor the locked position, nor the crosshair lines.
C6_LockedIgnoresPointer ==
    [][(is_crosshair_locked /\ Op(last_event') \in {"on_mouse_move", "on_mouse_leave"})
       => /\ UNCHANGED <<crosshair, lines>>
          /\ DrawnCrosshair' = DrawnCrosshair
      ]_vars

\* A move inside the axes, past the debounce interval, arrived while locked.
C6_Witness ==
    /\ is_crosshair_locked
    /\ Op(last_event) = "on_mouse_move"
    /\ last_event.args[1]
    /\ since_move * TickMs >= mouse_move_debounce_ms
    /\ cross_line.exists
    /\ cross_line.pos = locked_crosshair_position
    /\ last_event.args[2] # locked_crosshair_position

\* C7: a primary click inside the plot while locked leaves the crosshair Hidden
\* (not locked, not visible, no locked position), and the next processed move inside
\* the plot shows the crosshair lines at the pointer.
C7_UnlockHides ==
    [][/\ (is_crosshair_locked /\ Op(last_event') = "on_mouse_click" /\ ~is_crosshair_locked')
          => ~is_crosshair_visible' /\ locked_crosshair_position' = None
       /\ (~is_crosshair_locked /\ Op(last_event') = "on_mouse_move" /\ since_move' < since_move)
          => /\ is_crosshair_visible'
             /\ DrawnCrosshair' = {last_event'.args[2]}
      ]_vars

\* C8 as stated: a primary click inside the plot while Hovering locks at the position
\* the crosshair displayed before the click; other clicks change nothing.
C8_LockAtDisplayedPosition ==
    [][(Hovering /\ Op(last_event') = "on_mouse_click")
       => IF last_event'.args[1] /\ last_event'.args[2] = 1
          THEN /\ is_crosshair_locked'
               /\ cross_line.exists => locked_crosshair_position' = cross_line.pos
          ELSE UNCHANGED <<crosshair, lines>>
      ]_vars

\* C8 amended: a primary click inside the plot while Hovering locks at the click's own
\* coordinates and moves the crosshair artists there; other clicks change nothing.
C8_LockAtClickPosition ==
    [][(Hovering /\ Op(last_event') = "on_mouse_click")
       => IF last_event'.args[1] /\ last_event'.args[2] = 1
          THEN /\ is_crosshair_locked'
               /\ is_crosshair_visible'
               /\ locked_crosshair_position' = last_event'.args[3]
               /\ cross_line.exists => cross_line'.pos = last_event'.args[3]
          ELSE UNCHANGED <<crosshair, lines>>
      ]_vars

\* The lock sits at a click position other than the one the pointer last hovered at.
C8_Witness ==
    /\ Op(last_event) = "on_mouse_click"
    /\ is_crosshair_locked
    /\ is_crosshair_visible
    /\ locked_crosshair_position = last_event.args[3]
    /\ cross_line.exists
    /\ cross_line.pos = locked_crosshair_position

\* C9: when a range-drag gesture ends, the crosshair state is the one the gesture
\* started with, whatever pointer events and redraws came in between.
C9_DragRestoresCrosshair ==
    [][Op(last_event') = "stop_range_drag" => crosshair' = drag_snapshot]_vars

\* C10: a range mutation runs no filter cycle and re-arms the timer with the full
\* delay; a cycle runs only when no mutation arrived for the delay, so none runs
\* inside a burst; the timer's expiry runs the one cycle, from the bounds as they
\* then stand, and leaves the timer idle, so that no second cycle follows.
C10_TrailingDebounce ==
    /\ [](burst >= 1 => /\ cycles_after <= 1
                        /\ timer_active <=> cycles_after = 0)
    /\ [][/\ Op(last_event') \in {"start_slider_valueChanged", "end_slider_valueChanged",
                                  "stop_range_drag"}
             => /\ filtered_records' = filtered_records
                /\ timer_active' /\ timer_left' = DelayTicks
          /\ Op(last_event') = "range_mouse_move"
             => /\ filtered_records' = filtered_records
                /\ range' # range => timer_active' /\ timer_left' = DelayTicks
          /\ Op(last_event') = "filter_and_plot_data"
             => /\ since_mutation * TickMs >= debounce_delay
                /\ timer_active /\ ~timer_active'
                /\ range' = range
                /\ current_records # <<>> =>
                      filtered_records' = RecordsIn(current_records,
                          TruncatedWindow(current_records, lower_time_percentage,
                                          upper_time_percentage))
         ]_vars

\* One cycle has run after a burst of at least two mutations and has changed what
\* is displayed.
C10_Witness ==
    /\ Op(last_event) = "filter_and_plot_data"
    /\ burst >= 2
    /\ cycles_after = 1
    /\ ~timer_active
    /\ current_records # <<>>
    /\ filtered_records # current_records
    /\ filtered_records # <<>>

\* C11: an in-bounds move received while not locked less than mouse_move_debounce_ms
\* after the last processed move changes nothing and is not kept for later (the
\* clock alone never moves the crosshair); a move received later is applied at once
\* with its own coordinates, so two applied updates are at least the interval apart.
C11_HoverDebounce ==
    [][/\ (Op(last_event') = "on_mouse_move" /\ last_event'.args[1] /\ ~is_crosshair_locked)
          => IF since_move * TickMs < mouse_move_debounce_ms
             THEN UNCHANGED <<crosshair, lines, since_move>>
             ELSE /\ since_move' = 0
                  /\ is_crosshair_visible'
                  /\ cross_line'.exists
                  /\ cross_line'.pos = last_event'.args[2]
       /\ Op(last_event') \in {"Tick", "message_box_ok"} => UNCHANGED <<crosshair, lines>>
      ]_vars

\* A move inside the plot was dropped: the crosshair still shows the coordinates of
\* the move processed before it.
C11_Witness ==
    /\ Op(last_event) = "on_mouse_move"
    /\ last_event.args[1]
    /\ Hovering
    /\ since_move = 0
    /\ cross_line.exists
    /\ cross_line.visible
    /\ cross_line.pos # last_event.args[2]

\* C12: a drag move either leaves the bounds and the sliders as they were or stores a
\* span, upper_time_percentage - lower_time_percentage, of at least
\* get_minimum_range_percentage().
C12_MinSpanKept ==
    [][Op(last_event') = "range_mouse_move"
       => \/ range' = range
          \/ LET min_range == get_minimum_range_percentage
             IN  (upper_time_percentage' - lower_time_percentage') * min_range[2] >= min_range[1]
      ]_vars

\* C13: a load that ends in a message box (nothing listed, the store raised, or a
\* later step of the load raised) leaves the records, the time span and the range
\* bounds as they were before initialize_data, and shows exactly one box.
C13_FailedLoadAtomic ==
    [][(Op(last_event') = "initialize_data" /\ modal' # modal)
       => /\ UNCHANGED <<data, filtered_records, range>>
          /\ Len(modal') = Len(modal) + 1
      ]_vars

\* The record of current_records nearest the locked position, as line 462 finds it.
NearestToLock ==
    current_records[closest_index(current_records,
        fromtimestamp(num2timestamp(locked_crosshair_position[1]), tz_offset))]
\* Select is pressed with the crosshair locked on a dataset whose nearest record can
\* be determined.
ResolvingSelect ==
    /\ Op(last_event') = "select_button_click"
    /\ ~select_refused
    /\ current_records # <<>>
    /\ \A i \in 1..Len(current_records) : ~current_records[i].aware

\* C14: when the nearest record has no payload and the store returns nothing for its
\* frame, no prompt is shown, no event is emitted, a warning is shown and
\* selected_record, the crosshair and the bounds are unchanged; when the nearest
\* record has a payload it becomes the selected record whatever the store holds.
C14_MissingPayloadAborts ==
    [][ResolvingSelect
       => IF NearestToLock.message = "full"
          THEN selected_record' = <<NearestToLock>>
          ELSE ~last_event'.args[1]
               => /\ prompts' = prompts
                  /\ emitted' = emitted
                  /\ modal' = Append(modal, Box("warning", "No record found", "select"))
                  /\ UNCHANGED <<selected_record, crosshair, range>>
      ]_vars

FilterRan ==
    /\ Op(last_event) \in {"filter_and_plot_data", "initialize_data"}
    /\ current_records # <<>>
\* The position in the store's listing of a loaded record.
FetchIndex(r) == CHOOSE i \in 1..Len(store) : store[i] = r

\* C16: after a filter step on a non-empty dataset filtered_records holds exactly the
\* records of current_records whose frame index lies in the window of the bounds,
\* both ends included, once per occurrence and in the order of current_records,
\* which is ascending in frame index with equal indices in fetch order.
C16_FilterExact ==
    FilterRan =>
        LET w == get_current_frame_index_range(
                     current_records, lower_time_percentage, upper_time_percentage)
        IN  /\ filtered_records = RecordsIn(current_records, w)
            /\ \A i, j \in 1..Len(filtered_records) :
                  i < j => filtered_records[i].frameIndex <= filtered_records[j].frameIndex
            /\ \A i, j \in 1..Len(current_records) :
                  i < j => \/ current_records[i].frameIndex < current_records[j].frameIndex
                           \/ /\ current_records[i].frameIndex = current_records[j].frameIndex
                              /\ FetchIndex(current_records[i]) < FetchIndex(current_records[j])

\* A cycle kept both records of the lower frame index of the listing with repeated
\* indices and dropped the others.
C16_Witness ==
    /\ Op(last_event) = "filter_and_plot_data"
    /\ store = DatasetTies
    /\ Len(filtered_records) = 2
    /\ filtered_records[1].createdAt = 10
    /\ filtered_records[2].createdAt = 15

\* C17: when every loaded record has the same frame index f, the window of any bounds
\* is [f, f] (no error value (0, 0), nothing cleared by a raised exception) and a
\* filter step keeps every record.
C17_DegenerateWindow ==
    (current_records # <<>> /\ MinFrame(current_records) = MaxFrame(current_records))
    => LET f == current_records[1].frameIndex
       IN  /\ get_current_frame_index_range(
                  current_records, lower_time_percentage, upper_time_percentage) = <<f, f>>
           /\ FilterRan => filtered_records = current_records

\* A cycle ran on the one-index dataset with both bounds moved, in either order.
C17_Witness ==
    /\ Op(last_event) = "filter_and_plot_data"
    /\ store = DatasetFlat
    /\ lower_time_percentage = 90
    /\ upper_time_percentage = 33
    /\ Len(filtered_records) = 2

\* The sum of seq[lo+1 .. hi].
RECURSIVE SumRange(_, _, _)
SumRange(seq, lo, hi) == IF hi <= lo THEN 0 ELSE seq[hi] + SumRange(seq, lo, hi - 1)

\* C18: downsample_array(seq, factor) is seq itself for factor <= 1; for factor > 1
\* it has ceil(len(seq) / factor) elements and element i is the mean of
\* seq[i*factor : min((i+1)*factor, len(seq))]; an empty input gives an empty output,
\* a factor above the length gives the one global mean, a constant sequence gives
\* that constant. A mean is the fraction <<sum, count>>.
C18_Downsample ==
    Op(last_event) = "downsample_array" =>
        LET seq == last_event.args[1]
            factor == last_event.args[2]
            result == output[1]
        IN  IF factor <= 1 THEN result = seq
            ELSE /\ Len(result) = (Len(seq) + factor - 1) \div factor
                 /\ \A i \in 0..(Len(result) - 1) :
                       LET lo == i * factor
                           hi == Min2((i + 1) * factor, Len(seq))
                       IN  /\ result[i + 1][2] = hi - lo
                           /\ result[i + 1][1] = SumRange(seq, lo, hi)
                 /\ seq = <<>> => result = <<>>
                 /\ (seq # <<>> /\ factor > Len(seq))
                    => result = <<(<<SumRange(seq, 0, Len(seq)), Len(seq)>>)>>
                 /\ \A c \in SampleValues :
                       (\A k \in 1..Len(seq) : seq[k] = c)
                       => \A i \in 1..Len(result) : result[i][1] = c * result[i][2]

\* Four samples reduced by three: one full bucket and a last bucket of one sample.
C18_Witness ==
    /\ Op(last_event) = "downsample_array"
    /\ last_event.args = <<(<<2, 8, 8, 2>>), 3>>
    /\ output = <<(<< <<18, 3>>, <<2, 1>> >>)>>

\* The first record of current_records, in its ascending frame order, at minimum
\* distance from the plot coordinate x.
NearestInPlot(x) ==
    LET Dist(i) == Abs(date2num(current_records[i].createdAt) - x)
    IN  current_records[CHOOSE i \in 1..Len(current_records) :
            /\ \A j \in 1..Len(current_records) : Dist(i) <= Dist(j)
            /\ \A j \in 1..(i - 1) : Dist(j) > Dist(i)]

\* C19: a Select press with the crosshair locked at x resolves the record whose plot
\* coordinate is nearest x, the earlier one in frame order when two are equally near;
\* stated for the presses where that record has its payload, so that no store query
\* is involved.
C19_NearestResolved ==
    [][(/\ Op(last_event') = "select_button_click"
        /\ ~select_refused
        /\ current_records # <<>>
        /\ NearestInPlot(locked_crosshair_position[1]).message = "full")
       => selected_record' = <<NearestInPlot(locked_crosshair_position[1])>>
      ]_vars


\* A plot that raised is still on the stack: its "Error plotting data" box (line 289)
\* has not been dismissed.
PlotBlocked == \E i \in 1..Len(modal) : modal[i].text = "Error plotting data"

\* C20: filter-and-redraw cycles are serialized: no filter_and_plot_data starts from
\* the debounce timer while an earlier cycle, started by the load or by the timer,
\* is still blocked in the message box of its plot.
C20_CyclesSerialized ==
    [][Op(last_event') = "filter_and_plot_data" => ~PlotBlocked]_vars


\* A step that changes the range or ends a drag: it arms the debounce timer with the
\* full delay (lines 419, 382, 355).
RangeMutationStep ==
    /\ Op(last_event') \in {"start_slider_valueChanged", "end_slider_valueChanged",
                            "range_mouse_move", "stop_range_drag"}
    /\ timer_active'
    /\ timer_left' = DelayTicks
\* The displayed records are the window filter of the loaded records under the
\* current bounds.
WindowApplied ==
    filtered_records = filter_records_by_frame_index_range(
                           current_records, lower_time_percentage, upper_time_percentage)

\* C21: under a fair timer, unless range mutations keep arriving forever, a
\* filter cycle runs after the last one: from some point on no timer is pending and
\* filtered_records is the window filter of the loaded records under the bounds the
\* last mutation left; no mutation stays unapplied.
C21_DebounceLive ==
    []<><<RangeMutationStep>>_vars \/ <>[](~timer_active /\ WindowApplied)

\* A cycle has run after a burst of mutations on a loaded dataset and has applied
\* bounds that differ from the ones the load left.
C21_Witness ==
    /\ Op(last_event) = "filter_and_plot_data"
    /\ current_records # <<>>
    /\ burst >= 1
    /\ cycles_after = 1
    /\ lower_time_percentage > SliderMin
    /\ ~timer_active
    /\ WindowApplied
    /\ Len(filtered_records) < Len(current_records)


\* C22: whenever no debounce timer is pending and no handler is running,
\* filtered_records is the window filter of current_records under the current
\* bounds, which is the set of records inside the window that
\* get_current_frame_index_range reports; the two can differ only while a filter
\* cycle is pending.
C22_SettledWindowApplied ==
    (~timer_active /\ Idle)
    => /\ WindowApplied
       /\ filtered_records =
              RecordsIn(current_records,
                        get_current_frame_index_range(
                            current_records, lower_time_percentage, upper_time_percentage))

\* The widget has settled on a loaded dataset with bounds the user has chosen, and
\* the window leaves some of the loaded records out.
C22_Witness ==
    /\ ~timer_active
    /\ Idle
    /\ current_records # <<>>
    /\ burst >= 1
    /\ upper_time_percentage < SliderMax
    /\ filtered_records # <<>>
    /\ Len(filtered_records) < Len(current_records)


\* C23: Locked is entered only from Hovering: a step that sets is_crosshair_locked
\* starts with the crosshair visible, and a primary click inside the plot while the
\* crosshair is Hidden leaves the lock flag clear and the locked position empty, so
\* that a following Select is refused.
C23_LockOnlyFromHovering ==
    [][/\ (~is_crosshair_locked /\ is_crosshair_locked') => is_crosshair_visible
       /\ (Op(last_event') = "on_mouse_click" /\ ~is_crosshair_visible /\ ~is_crosshair_locked)
          => /\ ~is_crosshair_locked'
             /\ locked_crosshair_position' = None
             /\ select_refused'
      ]_vars


\* A drag move that range_mouse_move applies (it passes the tests of lines 361-375).
AppliedDragMove ==
    /\ Op(last_event') = "range_mouse_move"
    /\ ~range_move_ignored(last_event'.args[1], last_event'.args[2])

\* C24: a range drag translates both bounds by the pointer displacement since the
\* press: a drag move at the position of the press leaves both bounds at their values
\* at start_range_drag, and an applied drag move shifts both bounds by the same
\* amount unless one of them is clamped to 0 or 100.
C24_DragTranslates ==
    [][/\ (AppliedDragMove /\ last_event'.args[1] = press_x)
          => /\ lower_time_percentage' = initial_lower_x
             /\ upper_time_percentage' = initial_upper_x
       /\ AppliedDragMove
          => \/ lower_time_percentage' - initial_lower_x = upper_time_percentage' - initial_upper_x
             \/ lower_time_percentage' \in {SliderMin, SliderMax}
             \/ upper_time_percentage' \in {SliderMin, SliderMax}
      ]_vars

====
